---- MODULE Spec2Model ----
(***************************************************************************)
(* Greenlight MD: the note graph (link_utils.py), the editor's key loop    *)
(* (editor.py) and the force-directed layout (graph.py) as state machines. *)
(*                                                                         *)
(* A string is a sequence of one-character strings; the suffix ".md" is    *)
(* one symbol.  Python indices are 0-based: column x of the code is the    *)
(* position x + 1 of the sequence.                                         *)
(***************************************************************************)
EXTENDS Integers, Sequences, FiniteSets, TLC

VARIABLES
    fs,         \* the filesystem: path -> content, over the files that exist
    stack,      \* the activations of editing_screen, the running one last;
                \* empty once the outermost returned or an exception left it
    status,     \* "running", "quit" (the outermost screen returned), or the error that ended it
    edits,      \* how many buffer-changing key events were handled so far
    vault,      \* note graph run: the walk of the vault, a sequence of files
    gpc,        \* note graph run: "build", "reverse", "done", "failed"; "idle" in the editor
    graph,      \* note graph run: graph as build_note_graph returned it
    paths,      \* note graph run: paths as build_note_graph returned it
    incoming,   \* note graph run: the result of build_incoming_links
    layout,     \* force layout run: the locals of force_layout
    keylog,     \* key handler run: the locals of editing_screen after each
                \* key event so far, with the key, the oldest first
    boot,       \* boot run: the locals of bootup_screen and the worker's state
    tree,       \* link tree run: the locals of link_tree_screen
    doc,        \* text run: a text, the editor's load of it and its save
    view        \* graph view run: the locals of graph_view_screen

vars == <<fs, stack, status, edits, vault, gpc, graph, paths, incoming, layout, keylog, boot,
          tree, doc, view>>

editorVars == <<fs, stack, status, edits>>
graphVars == <<vault, gpc, graph, paths, incoming>>
layoutVars == <<layout>>
keysVars == <<keylog>>
bootVars == <<boot>>
treeVars == <<tree>>
docVars == <<doc>>
viewVars == <<view>>

-----------------------------------------------------------------------------
(* Bounds of the model. *)

\* buffer-changing key events (printable, Enter, Tab, Backspace) per run
MaxEdits == 1
\* nested activations of editing_screen (jumps that have not returned)
MaxDepth == 2

-----------------------------------------------------------------------------
(* Strings. *)

NL == "\n"
CR == "\r"
FF == "\f"
MD == ".md"
SEP == "/"

Take(s, n) == SubSeq(s, 1, n)
Drop(s, n) == SubSeq(s, n + 1, Len(s))
Last(s) == s[Len(s)]
Min(a, b) == IF a < b THEN a ELSE b
Max(a, b) == IF a > b THEN a ELSE b

\* open(path, "r") decodes with universal newlines: "\r\n" and "\r" read as "\n"
RECURSIVE UniversalNewlines(_)
UniversalNewlines(t) ==
    IF t = <<>> THEN <<>>
    ELSE IF t[1] = CR
         THEN IF Len(t) >= 2 /\ t[2] = NL
              THEN <<NL>> \o UniversalNewlines(Drop(t, 2))
              ELSE <<NL>> \o UniversalNewlines(Drop(t, 1))
         ELSE <<t[1]>> \o UniversalNewlines(Drop(t, 1))

\* str.splitlines(): a line ends at each line break ("\n", or another
\* boundary such as the form feed; a "\r" has been read as "\n"); no empty
\* last line after a final line break, no line at all for the empty string
RECURSIVE SplitAcc(_, _, _)
SplitAcc(t, cur, acc) ==
    IF t = <<>> THEN (IF cur = <<>> THEN acc ELSE Append(acc, cur))
    ELSE IF t[1] \in {NL, FF} THEN SplitAcc(Drop(t, 1), <<>>, Append(acc, cur))
    ELSE SplitAcc(Drop(t, 1), Append(cur, t[1]), acc)

splitlines(t) == SplitAcc(t, <<>>, <<>>)

\* the lines put one after the other with nothing between them
RECURSIVE JoinWithoutBreaks(_)
JoinWithoutBreaks(lines) ==
    IF lines = <<>> THEN <<>> ELSE lines[1] \o JoinWithoutBreaks(Drop(lines, 1))

\* "\n".join(buffer)
RECURSIVE join(_)
join(lines) ==
    IF lines = <<>> THEN <<>>
    ELSE IF Len(lines) = 1 THEN lines[1]
    ELSE lines[1] \o <<NL>> \o join(Drop(lines, 1))

-----------------------------------------------------------------------------
(* link_pattern = \[\[([^\]]+)\]\] *)

\* the first position >= p of s that holds "]", or Len(s) + 1
RECURSIVE RunEnd(_, _)
RunEnd(s, p) ==
    IF p > Len(s) \/ s[p] = "]" THEN p ELSE RunEnd(s, p + 1)

\* the pattern matches at position p: "[[", one or more characters other
\* than "]" (greedy: the whole run), "]]"
MatchAt(s, p) ==
    /\ p + 1 <= Len(s)
    /\ s[p] = "["
    /\ s[p + 1] = "["
    /\ LET r == RunEnd(s, p + 2)
       IN  /\ r > p + 2
           /\ r + 1 <= Len(s)
           /\ s[r + 1] = "]"

\* a scan that resumes one character after a match's start
RECURSIVE ScanOverlapping(_, _)
ScanOverlapping(s, p) ==
    IF p > Len(s) THEN <<>>
    ELSE IF MatchAt(s, p)
         THEN LET r == RunEnd(s, p + 2)
              IN  <<[note |-> SubSeq(s, p + 2, r - 1),
                     x_start |-> p - 1,
                     x_end |-> r + 1]>> \o ScanOverlapping(s, p + 1)
         ELSE ScanOverlapping(s, p + 1)

\* link_pattern.finditer(s): leftmost match first, the scan resumes at the
\* match's end; x_start, x_end are match.span(), note is match.group(1)
RECURSIVE ScanFrom(_, _)
ScanFrom(s, p) ==
    IF p > Len(s) THEN <<>>
    ELSE IF MatchAt(s, p)
         THEN LET r == RunEnd(s, p + 2)
              IN  <<[note |-> SubSeq(s, p + 2, r - 1),
                     x_start |-> p - 1,
                     x_end |-> r + 1]>> \o ScanFrom(s, r + 2)
         ELSE ScanFrom(s, p + 1)

finditer(s) == ScanFrom(s, 1)

\* link_pattern.findall(text): the captured names
findall(t) ==
    LET ms == finditer(t)
    IN  [i \in 1..Len(ms) |-> ms[i].note]

-----------------------------------------------------------------------------
(* Python dicts keep insertion order: keys in that order, val the mapping.  *)

EmptyDict == [keys |-> <<>>, val |-> <<>>]

Has(d, k) == \E i \in 1..Len(d.keys) : d.keys[i] = k

KeyIndex(d, k) == CHOOSE i \in 1..Len(d.keys) : d.keys[i] = k

Get(d, k) == d.val[KeyIndex(d, k)]

\* d[k] = v: a key already present keeps its place
Put(d, k, v) ==
    IF Has(d, k)
    THEN [d EXCEPT !.val[KeyIndex(d, k)] = v]
    ELSE [keys |-> Append(d.keys, k), val |-> Append(d.val, v)]

KeySet(d) == {d.keys[i] : i \in 1..Len(d.keys)}

Elems(s) == {s[i] : i \in 1..Len(s)}

-----------------------------------------------------------------------------
(* Paths and files. *)

vault_root == <<"v">>

\* the directories that exist; the program creates none
Dirs == {vault_root, vault_root \o <<SEP, "d">>}

\* os.path.join(a, b): an absolute b replaces a
path_join(a, b) ==
    IF b # <<>> /\ b[1] = SEP THEN b
    ELSE IF a # <<>> /\ Last(a) = SEP THEN a \o b
    ELSE a \o <<SEP>> \o b

\* the position of the last separator of p, 0 when it has none
RECURSIVE LastSep(_, _)
LastSep(p, i) ==
    IF i = 0 THEN 0 ELSE IF p[i] = SEP THEN i ELSE LastSep(p, i - 1)

Dirname(p) == Take(p, Max(LastSep(p, Len(p)) - 1, 0))
Basename(p) == Drop(p, LastSep(p, Len(p)))

\* file.endswith(".md")
IsMd(file) == file # <<>> /\ Last(file) = MD

\* file[:-3]
NoteName(file) == Take(file, Len(file) - 1)

\* the number of characters of a path as printed
RECURSIVE CharLen(_)
CharLen(p) ==
    IF p = <<>> THEN 0
    ELSE (IF p[1] = MD THEN 3 ELSE 1) + CharLen(Drop(p, 1))

\* what reading a file gives: its text, or the exception open()/read() raises
Content(t) == [err |-> "none", text |-> t]
Failure(e) == [err |-> e, text |-> <<>>]

ReadErrors == {"FileNotFoundError", "PermissionError", "UnicodeDecodeError"}

-----------------------------------------------------------------------------
(* link_utils.py *)

\* extract_links_from_file(path), r what reading path gives: only
\* FileNotFoundError is caught, any other exception propagates (raised)
extract_links_from_file(r) ==
    IF r.err = "FileNotFoundError" THEN [raised |-> FALSE, links |-> <<>>]
    ELSE IF r.err # "none" THEN [raised |-> TRUE, links |-> <<>>]
    ELSE [raised |-> FALSE, links |-> findall(UniversalNewlines(r.text))]

\* build_note_graph(root_dir): walk is os.walk's enumeration of the files
\* (each with what reading it gives); g and p are graph and paths so far.
\* ok is FALSE when an exception left the function.
RECURSIVE BuildFrom(_, _, _)
BuildFrom(walk, g, p) ==
    IF walk = <<>> THEN [ok |-> TRUE, graph |-> g, paths |-> p]
    ELSE LET file == Basename(walk[1].path)
             got == extract_links_from_file(walk[1].read)
         IN  IF ~IsMd(file) THEN BuildFrom(Drop(walk, 1), g, p)
             ELSE IF got.raised
                  THEN [ok |-> FALSE, graph |-> g, paths |-> p]
                  ELSE BuildFrom(Drop(walk, 1),
                                 Put(g, NoteName(file), got.links),
                                 Put(p, NoteName(file), walk[1].path))

build_note_graph(walk) == BuildFrom(walk, EmptyDict, EmptyDict)

\* the inner loop without the test of line 49: every target becomes a key
RECURSIVE AddTargetsAnyTarget(_, _, _)
AddTargetsAnyTarget(inc, src, targets) ==
    IF targets = <<>> THEN inc
    ELSE AddTargetsAnyTarget(
            Put(inc, targets[1],
                Append(IF Has(inc, targets[1]) THEN Get(inc, targets[1]) ELSE <<>>, src)),
            src, Drop(targets, 1))

\* the inner loops of build_incoming_links: for tgt in targets
RECURSIVE AddTargets(_, _, _)
AddTargets(inc, src, targets) ==
    IF targets = <<>> THEN inc
    ELSE AddTargets(
            IF Has(inc, targets[1])
            THEN Put(inc, targets[1], Append(Get(inc, targets[1]), src))
            ELSE inc,
            src, Drop(targets, 1))

\* for src, targets in graph.items(), from entry i on
RECURSIVE AddSources(_, _, _)
AddSources(inc, g, i) ==
    IF i > Len(g.keys) THEN inc
    ELSE AddSources(AddTargets(inc, g.keys[i], g.val[i]), g, i + 1)

\* build_incoming_links(graph)
build_incoming_links(g) ==
    AddSources([keys |-> g.keys, val |-> [i \in 1..Len(g.keys) |-> <<>>]], g, 1)

-----------------------------------------------------------------------------
(* editor.py: editing_screen *)

\* the terminal sizes getmaxyx() may report, <<rows, columns>>
Sizes == {<<1, 80>>, <<2, 80>>, <<3, 80>>, <<3, 6>>}

\* the printable keys the model presses (the code takes 32..126)
Printable == {"x"}

Link(n) == <<"[", "[">> \o n \o <<"]", "]">>

\* os.walk(root_dir) over fs: the files of a directory before those of its
\* subdirectories, each read without failure
Depth(p) == Cardinality({i \in 1..Len(p) : p[i] = SEP})

InVault(p) == Len(p) > Len(vault_root) /\ Take(p, Len(vault_root) + 1) = vault_root \o <<SEP>>

RECURSIVE WalkSeq(_, _)
WalkSeq(files, S) ==
    IF S = {} THEN <<>>
    ELSE LET p == CHOOSE q \in S : \A r \in S : Depth(q) <= Depth(r)
         IN  <<[path |-> p, read |-> Content(files[p])]>> \o WalkSeq(files, S \ {p})

os_walk(files) == WalkSeq(files, {p \in DOMAIN files : InVault(p)})

\* lines 26-45: the locals of a fresh activation for file_path.  height is
\* the local of line 49; it is kept only while the activation waits in a jump
\* (lines 148, 154), where line 217 reads it after the callee returns; a
\* running loop reads getmaxyx() again before any use, and holds 0 here.
\* The local graph (line 40) is never read and is left out.
OpenFrame(file_path, files) ==
    LET read == IF file_path \in DOMAIN files
                THEN splitlines(UniversalNewlines(files[file_path]))
                ELSE <<>>
        built == build_note_graph(os_walk(files))
    IN  [file_path |-> file_path,
         buffer |-> IF read = <<>> THEN << <<>> >> ELSE read,
         y |-> 0, x |-> 0, offset |-> 0,
         save_status |-> TRUE,
         last_saved_time |-> FALSE,
         paths |-> built.paths,
         height |-> 0]

\* lines 53-65: links_on_screen of the lines lo..hi (positions) of the buffer
RECURSIVE LinksFrom(_, _, _)
LinksFrom(buffer, lo, hi) ==
    IF lo > hi THEN <<>>
    ELSE LET ms == finditer(buffer[lo])
         IN  [i \in 1..Len(ms) |->
                 [note |-> ms[i].note, y |-> lo - 1,
                  x_start |-> ms[i].x_start, x_end |-> ms[i].x_end]]
             \o LinksFrom(buffer, lo + 1, hi)

\* buffer[offset:offset + height - 1] holds the positions FirstRow..LastRow
FirstRow(f) == f.offset + 1
LastRow(f, height) == Min(f.offset + height - 1, Len(f.buffer))

links_on_screen(f, height) == LinksFrom(f.buffer, FirstRow(f), LastRow(f, height))

NoLink == [note |-> <<>>, y |-> -1, x_start |-> 0, x_end |-> 0]

\* lines 97-102: the first link on screen that holds the cursor
RECURSIVE FirstUnder(_, _, _)
FirstUnder(links, y, x) ==
    IF links = <<>> THEN NoLink
    ELSE IF y = links[1].y /\ links[1].x_start <= x /\ x < links[1].x_end
         THEN links[1]
         ELSE FirstUnder(Drop(links, 1), y, x)

current_link(f, height) == FirstUnder(links_on_screen(f, height), f.y, f.x)

\* line[a:b][:max(0, width - a - 1)] drawn at (row, a)
Draw(row, a, b, width) ==
    [y |-> row, x |-> a, n |-> Min(b - a, Max(0, width - a - 1))]

\* lines 55-94: the addstr calls for one line, ms its matches still to draw
RECURSIVE LineDraws(_, _, _, _, _)
LineDraws(line, row, width, ms, last_idx) ==
    IF ms = <<>>
    THEN IF last_idx < Len(line)
         THEN <<Draw(row, last_idx, Len(line), width)>>
         ELSE <<>>
    ELSE (IF ms[1].x_start > last_idx
          THEN <<Draw(row, last_idx, ms[1].x_start, width)>>
          ELSE <<>>)
         \o <<Draw(row, ms[1].x_start, ms[1].x_end, width)>>
         \o LineDraws(line, row, width, Drop(ms, 1), ms[1].x_end)

Digits(n) == IF n < 10 THEN 1 ELSE IF n < 100 THEN 2 ELSE 3

\* lines 104-106: len(left)
LeftLen(f, height) ==
    LET link == current_link(f, height)
    IN  4 + CharLen(f.file_path)
          + (IF link # NoLink THEN 20 + Len(link.note) ELSE 0)

\* lines 108-114: len(right); recent is time.time() - last_saved_time < 3
RightLen(f, recent) ==
    (IF ~f.save_status THEN 18
     ELSE IF f.last_saved_time /\ recent THEN 25
     ELSE 0)
    + 15 + Digits(f.y + 1) + Digits(f.x + 1)

\* lines 116-122: status.rjust(width - 1) drawn on the last row
StatusDraw(f, height, width, recent) ==
    LET left == LeftLen(f, height)
        status_len == left + Max(RightLen(f, recent), width - left - 1)
    IN  [y |-> height - 1, x |-> 0, n |-> Max(status_len, width - 1)]

\* stdscr.addstr(y, x, s) with len(s) = n raises curses.error when (y, x) is
\* outside the window or the text reaches the window's last cell
AddstrFails(d, height, width) ==
    \/ d.y < 0 \/ d.y >= height
    \/ d.x < 0 \/ d.x >= width
    \/ d.n > 0 /\ d.y * width + d.x + d.n >= height * width

\* lines 48-129: an addstr of the frame raises
RenderFails(f, height, width, recent) ==
    \/ \E lo \in FirstRow(f)..LastRow(f, height) :
          LET draws == LineDraws(f.buffer[lo], lo - 1 - f.offset, width,
                                 finditer(f.buffer[lo]), 0)
          IN  \E i \in 1..Len(draws) : AddstrFails(draws[i], height, width)
    \/ AddstrFails(StatusDraw(f, height, width, recent), height, width)

\* what time.time() - last_saved_time < 3 may be
Recent(f) == IF f.last_saved_time THEN BOOLEAN ELSE {FALSE}

\* lines 214-218
AdjustScroll(f, height) ==
    IF f.y < f.offset THEN [f EXCEPT !.offset = f.y]
    ELSE IF f.y >= f.offset + (height - 2)
         THEN [f EXCEPT !.offset = f.y - (height - 2)]
         ELSE f

\* Enter that opens an empty line and drops the text behind the cursor
SplitLineDropsRest(f) ==
    LET current_line == f.buffer[f.y + 1]
    IN  [f EXCEPT !.save_status = FALSE,
                  !.buffer = Take(f.buffer, f.y)
                             \o <<Take(current_line, f.x), <<>>>>
                             \o Drop(f.buffer, f.y + 1),
                  !.y = f.y + 1,
                  !.x = 0]

\* lines 155-161: Enter splits the line at the cursor
SplitLine(f) ==
    LET current_line == f.buffer[f.y + 1]
    IN  [f EXCEPT !.save_status = FALSE,
                  !.buffer = Take(f.buffer, f.y)
                             \o <<Take(current_line, f.x), Drop(current_line, f.x)>>
                             \o Drop(f.buffer, f.y + 1),
                  !.y = f.y + 1,
                  !.x = 0]

\* lines 162-165: Tab inserts four spaces
Indent(f) ==
    LET line == f.buffer[f.y + 1]
    IN  [f EXCEPT !.save_status = FALSE,
                  !.buffer[f.y + 1] = Take(line, f.x) \o <<" ", " ", " ", " ">> \o Drop(line, f.x),
                  !.x = f.x + 4]

\* Backspace that reads the previous line's length after the merge
\* (line 173 after line 174)
BackspaceMergedLength(f) ==
    LET line == f.buffer[f.y + 1]
    IN  IF f.x > 0
        THEN [f EXCEPT !.save_status = FALSE,
                       !.buffer[f.y + 1] = Take(line, f.x - 1) \o Drop(line, f.x),
                       !.x = f.x - 1]
        ELSE IF f.y > 0
        THEN [f EXCEPT !.save_status = FALSE,
                       !.buffer = Take(f.buffer, f.y - 1)
                                  \o <<f.buffer[f.y] \o line>>
                                  \o Drop(f.buffer, f.y + 1),
                       !.y = f.y - 1,
                       !.x = Len(f.buffer[f.y] \o line)]
        ELSE [f EXCEPT !.save_status = FALSE]

\* lines 166-177
Backspace(f) ==
    LET line == f.buffer[f.y + 1]
    IN  IF f.x > 0
        THEN [f EXCEPT !.save_status = FALSE,
                       !.buffer[f.y + 1] = Take(line, f.x - 1) \o Drop(line, f.x),
                       !.x = f.x - 1]
        ELSE IF f.y > 0
        THEN LET prev_len == Len(f.buffer[f.y])
             IN  [f EXCEPT !.save_status = FALSE,
                           !.buffer = Take(f.buffer, f.y - 1)
                                      \o <<f.buffer[f.y] \o line>>
                                      \o Drop(f.buffer, f.y + 1),
                           !.y = f.y - 1,
                           !.x = prev_len]
        ELSE [f EXCEPT !.save_status = FALSE]

\* Left without the tests of lines 179 and 181
CursorLeftUnchecked(f) == [f EXCEPT !.x = f.x - 1]

\* lines 178-184
CursorLeft(f) ==
    IF f.x > 0 THEN [f EXCEPT !.x = f.x - 1]
    ELSE IF f.y > 0 THEN [f EXCEPT !.y = f.y - 1, !.x = Len(f.buffer[f.y])]
    ELSE f

\* Right without the wrap of lines 188-191
CursorRightStops(f) ==
    IF f.x < Len(f.buffer[f.y + 1]) THEN [f EXCEPT !.x = f.x + 1] ELSE f

\* lines 185-191
CursorRight(f) ==
    IF f.x < Len(f.buffer[f.y + 1]) THEN [f EXCEPT !.x = f.x + 1]
    ELSE IF f.y < Len(f.buffer) - 1 THEN [f EXCEPT !.y = f.y + 1, !.x = 0]
    ELSE f

\* Up without the alignment of line 196
CursorUpKeepsColumn(f) ==
    IF f.y > 0 THEN [f EXCEPT !.y = f.y - 1] ELSE [f EXCEPT !.x = 0]

\* lines 192-199
CursorUp(f) ==
    IF f.y > 0
    THEN [f EXCEPT !.y = f.y - 1, !.x = Min(f.x, Len(f.buffer[f.y]))]
    ELSE [f EXCEPT !.x = 0]

\* lines 200-207
CursorDown(f) ==
    IF f.y < Len(f.buffer) - 1
    THEN [f EXCEPT !.y = f.y + 1, !.x = Min(f.x, Len(f.buffer[f.y + 2]))]
    ELSE [f EXCEPT !.x = Len(f.buffer[f.y + 1])]

\* a printable key that overwrites the character under the cursor
InsertCharOverwrites(f, ch) ==
    LET line == f.buffer[f.y + 1]
    IN  [f EXCEPT !.save_status = FALSE,
                  !.buffer[f.y + 1] = Take(line, f.x) \o <<ch>> \o Drop(line, f.x + 1),
                  !.x = f.x + 1]

\* lines 208-212
InsertChar(f, ch) ==
    LET line == f.buffer[f.y + 1]
    IN  [f EXCEPT !.save_status = FALSE,
                  !.buffer[f.y + 1] = Take(line, f.x) \o <<ch>> \o Drop(line, f.x),
                  !.x = f.x + 1]

\* lines 143-154: the file the jump opens
JumpTarget(f, note_name) ==
    IF Has(f.paths, note_name)
    THEN Get(f.paths, note_name)
    ELSE path_join(vault_root, note_name \o <<MD>>)

\* open(path, "w") creates or truncates the file when its directory exists
CanCreate(path) == Dirname(path) \in Dirs

WriteFile(files, path, text) ==
    [p \in DOMAIN files \cup {path} |-> IF p = path THEN text ELSE files[p]]

-----------------------------------------------------------------------------
(* The editor's loop: one action per iteration of `while True`, by key.    *)
(* (h, w) is what getmaxyx() returns in the iteration (line 49).           *)

Running == status = "running"

Top == stack[Len(stack)]
SetTop(f) == [stack EXCEPT ![Len(stack)] = f]

Idle == UNCHANGED <<graphVars, layoutVars, keysVars, bootVars, treeVars, docVars, viewVars>>

\* the iteration draws without error and reaches getch() (line 132)
AtGetch(h, w) ==
    /\ Running
    /\ \E recent \in Recent(Top) : ~RenderFails(Top, h, w, recent)

\* an addstr of lines 54-122 raises curses.error, which nothing catches: the
\* exception ends every activation of editing_screen
RenderError(h, w) ==
    /\ status = "running"
    /\ \E recent \in Recent(Top) : RenderFails(Top, h, w, recent)
    /\ status' = "render_error"
    /\ stack' = <<>>
    /\ UNCHANGED <<fs, edits>>
    /\ Idle

\* CTRL+Q of a design that keeps no caller: the previous note is loaded again
KeyQuitReloads(h, w) ==
    /\ AtGetch(h, w)
    /\ IF Len(stack) = 1
       THEN /\ stack' = <<>>
            /\ status' = "quit"
       ELSE /\ stack' = Append(Take(stack, Len(stack) - 2),
                               OpenFrame(stack[Len(stack) - 1].file_path, fs))
            /\ status' = status
    /\ UNCHANGED <<fs, edits>>
    /\ Idle

\* CTRL+Q of an editor that saves the buffer when it is left
KeyQuitAutosaves(h, w) ==
    /\ AtGetch(h, w)
    /\ fs' = WriteFile(fs, Top.file_path, join(Top.buffer))
    /\ IF Len(stack) = 1
       THEN /\ stack' = <<>>
            /\ status' = "quit"
       ELSE /\ stack' = Append(Take(stack, Len(stack) - 2),
                               [AdjustScroll(stack[Len(stack) - 1],
                                             stack[Len(stack) - 1].height)
                                   EXCEPT !.height = 0])
            /\ status' = status
    /\ UNCHANGED edits
    /\ Idle

\* lines 135-136: CTRL+Q returns; a caller resumes after its jump (line 215)
KeyQuit(h, w) ==
    /\ AtGetch(h, w)
    /\ IF Len(stack) = 1
       THEN /\ stack' = <<>>
            /\ status' = "quit"
       ELSE /\ stack' = Append(Take(stack, Len(stack) - 2),
                               [AdjustScroll(stack[Len(stack) - 1],
                                             stack[Len(stack) - 1].height)
                                   EXCEPT !.height = 0])
            /\ status' = status
    /\ UNCHANGED <<fs, edits>>
    /\ Idle

\* lines 137-142: CTRL+S, the write succeeds
KeySave(h, w) ==
    /\ Running
    /\ fs' = WriteFile(fs, Top.file_path, join(Top.buffer))
    /\ stack' = SetTop(AdjustScroll([Top EXCEPT !.save_status = TRUE,
                                                !.last_saved_time = TRUE], h))
    /\ UNCHANGED <<status, edits>>
    /\ AtGetch(h, w)
    /\ Idle

\* lines 139-141: CTRL+S, open() or write() raises OSError, which nothing
\* catches; a failing write() leaves the file truncated
KeySaveFails(h, w) ==
    /\ AtGetch(h, w)
    /\ \E truncated \in BOOLEAN :
          fs' = IF truncated /\ Top.file_path \in DOMAIN fs
                THEN WriteFile(fs, Top.file_path, <<>>)
                ELSE fs
    /\ stack' = <<>>
    /\ status' = "save_error"
    /\ UNCHANGED edits
    /\ Idle

\* lines 143-148: CTRL+G on a link whose note is in paths
KeyGotoExisting(h, w) ==
    /\ AtGetch(h, w)
    /\ Len(stack) < MaxDepth
    /\ current_link(Top, h) # NoLink
    /\ Has(Top.paths, current_link(Top, h).note)
    /\ stack' = Append(SetTop([Top EXCEPT !.height = h]),
                       OpenFrame(JumpTarget(Top, current_link(Top, h).note), fs))
    /\ UNCHANGED <<fs, status, edits>>
    /\ Idle

\* lines 149-154: CTRL+G on a link whose note is not in paths
KeyGotoMissing(h, w) ==
    /\ AtGetch(h, w)
    /\ Len(stack) < MaxDepth
    /\ current_link(Top, h) # NoLink
    /\ ~Has(Top.paths, current_link(Top, h).note)
    /\ LET target_file == JumpTarget(Top, current_link(Top, h).note)
       IN  IF CanCreate(target_file)
           THEN /\ fs' = WriteFile(fs, target_file, <<>>)
                /\ stack' = Append(SetTop([Top EXCEPT !.height = h]),
                                   OpenFrame(target_file, WriteFile(fs, target_file, <<>>)))
                /\ status' = status
           ELSE /\ fs' = fs
                /\ stack' = <<>>
                /\ status' = "create_error"
    /\ UNCHANGED edits
    /\ Idle

\* a key handler that changes only the locals of the running activation,
\* followed by lines 214-218
Handle(h, w, f) ==
    /\ Running
    /\ stack' = SetTop(AdjustScroll(f, h))
    /\ UNCHANGED <<fs, status>>
    /\ AtGetch(h, w)
    /\ Idle

KeyEnter(h, w) ==
    /\ edits < MaxEdits
    /\ Handle(h, w, SplitLine(Top))
    /\ edits' = edits + 1

KeyTab(h, w) ==
    /\ edits < MaxEdits
    /\ Handle(h, w, Indent(Top))
    /\ edits' = edits + 1

KeyBackspace(h, w) ==
    /\ edits < MaxEdits
    /\ Handle(h, w, Backspace(Top))
    /\ edits' = edits + 1

KeyPrintable(h, w) ==
    /\ edits < MaxEdits
    /\ \E ch \in Printable : Handle(h, w, InsertChar(Top, ch))
    /\ edits' = edits + 1

KeyLeft(h, w) == Handle(h, w, CursorLeft(Top)) /\ UNCHANGED edits

KeyRight(h, w) == Handle(h, w, CursorRight(Top)) /\ UNCHANGED edits

KeyUp(h, w) == Handle(h, w, CursorUp(Top)) /\ UNCHANGED edits

KeyDown(h, w) == Handle(h, w, CursorDown(Top)) /\ UNCHANGED edits

\* a key no branch takes (CTRL+G off a link, KEY_RESIZE, a function key)
KeyOther(h, w) == Handle(h, w, Top) /\ UNCHANGED edits

\* lines 133-134: getch() timed out; the iteration changes no local that a
\* later iteration reads
KeyIdle(h, w) ==
    /\ AtGetch(h, w)
    /\ UNCHANGED <<fs, stack, status, edits>>
    /\ Idle

-----------------------------------------------------------------------------
(* The editor started on <vault_root>/A.md, as main_entry starts it.        *)

APath == path_join(vault_root, <<"A", MD>>)
BPath == path_join(vault_root, <<"B", MD>>)

\* the vault before the session: B.md, and A.md with one of these texts or absent
InitialTexts ==
    { <<>>,
      Link(<<"B">>),
      Link(<<"C">>),
      Link(<<"d", SEP, "E">>) }

InitialVaults ==
    {[p \in {BPath} |-> <<"b">>]}
    \cup {[p \in {APath, BPath} |-> IF p = APath THEN t ELSE <<"b">>] : t \in InitialTexts}

NoLayout == [pc |-> "idle"]
NoBoot == [pc |-> "idle"]
NoTree == [pc |-> "idle"]
NoDoc == [pc |-> "idle"]
NoView == [pc |-> "idle"]

Init ==
    /\ fs \in InitialVaults
    /\ stack = <<OpenFrame(APath, fs)>>
    /\ status = "running"
    /\ edits = 0
    /\ vault = <<>>
    /\ gpc = "idle"
    /\ graph = EmptyDict
    /\ paths = EmptyDict
    /\ incoming = EmptyDict
    /\ layout = NoLayout
    /\ keylog = <<>>
    /\ boot = NoBoot
    /\ tree = NoTree
    /\ doc = NoDoc
    /\ view = NoView

Next ==
    \E sz \in Sizes :
        \/ RenderError(sz[1], sz[2])
        \/ KeyIdle(sz[1], sz[2])
        \/ KeyQuit(sz[1], sz[2])
        \/ KeySave(sz[1], sz[2])
        \/ KeySaveFails(sz[1], sz[2])
        \/ KeyGotoExisting(sz[1], sz[2])
        \/ KeyGotoMissing(sz[1], sz[2])
        \/ KeyEnter(sz[1], sz[2])
        \/ KeyTab(sz[1], sz[2])
        \/ KeyBackspace(sz[1], sz[2])
        \/ KeyPrintable(sz[1], sz[2])
        \/ KeyLeft(sz[1], sz[2])
        \/ KeyRight(sz[1], sz[2])
        \/ KeyUp(sz[1], sz[2])
        \/ KeyDown(sz[1], sz[2])
        \/ KeyOther(sz[1], sz[2])

Spec == Init /\ [][Next]_vars

-----------------------------------------------------------------------------
(* Claims about the editor, checked under Spec.                             *)

\* the key events after which lines 214-218 run in the activation that read
\* the key (a jump's lines 214-218 run when the callee returns: KeyQuit)
Processed(h, w) ==
    \/ KeySave(h, w)
    \/ KeyEnter(h, w)
    \/ KeyTab(h, w)
    \/ KeyBackspace(h, w)
    \/ KeyPrintable(h, w)
    \/ KeyLeft(h, w)
    \/ KeyRight(h, w)
    \/ KeyUp(h, w)
    \/ KeyDown(h, w)
    \/ KeyOther(h, w)

InView(f, h) ==
    /\ 0 <= f.offset
    /\ f.offset <= f.y
    /\ f.y < f.offset + (h - 1)

\* C2 as stated: after every processed key event 0 <= offset <= row and
\* row < offset + visibleHeight, visibleHeight = h - 1 for the h rows the
\* iteration read.
C2_AsStated ==
    [][\A sz \in Sizes :
          Processed(sz[1], sz[2]) => InView(Top', sz[1])]_vars

\* the buffer the editor shows for a file: lines 29-37
LoadBuffer(files, path) == OpenFrame(path, files).buffer

\* the link a CTRL+G of this iteration follows
JumpNote(h) == current_link(Top, h).note

\* C3 as stated: CTRL+G on a link to N opens paths[N] without modifying it
\* when N is a key of paths; otherwise it creates the empty file
\* <vault_root>/N.md, opens it as a buffer of one empty line, and a graph
\* build performed afterwards holds N with no outbound links.
C3_JumpOpensOrCreates ==
    [][\A sz \in Sizes :
          (KeyGotoExisting(sz[1], sz[2]) \/ KeyGotoMissing(sz[1], sz[2]))
          => IF Has(Top.paths, JumpNote(sz[1]))
             THEN /\ status' = "running"
                  /\ Len(stack') = Len(stack) + 1
                  /\ Top'.file_path = Get(Top.paths, JumpNote(sz[1]))
                  /\ Top'.buffer = LoadBuffer(fs, Top'.file_path)
                  /\ fs' = fs
             ELSE LET target == vault_root \o <<SEP>> \o JumpNote(sz[1]) \o <<MD>>
                      rebuilt == build_note_graph(os_walk(fs')).graph
                  IN  /\ status' = "running"
                      /\ Len(stack') = Len(stack) + 1
                      /\ target \in DOMAIN fs'
                      /\ fs'[target] = <<>>
                      /\ Top'.file_path = target
                      /\ Top'.buffer = << <<>> >>
                      /\ Has(rebuilt, JumpNote(sz[1]))
                      /\ Get(rebuilt, JumpNote(sz[1])) = <<>>]_vars

\* C4 as stated: the previous note's buffer is not retained by a jump, so
\* when the target note is quit the editor does not show unsaved edits of
\* the previous note again.
C4_AsStated ==
    [][\A sz \in Sizes :
          (KeyQuit(sz[1], sz[2]) /\ Len(stack) > 1) => Top'.save_status]_vars

\* the locals of an activation that a jump must keep
Kept(f) == [f EXCEPT !.height = 0, !.offset = 0]

\* C4 amended: a jump opens the target note in a nested session and keeps
\* the previous note's session: while the target is open no key event
\* changes the previous buffer, cursor or save status, and Quit in the target
\* resumes the previous session with them, unsaved edits included.
C4_JumpKeepsCaller ==
    [][/\ (Running' /\ Len(stack') >= Len(stack))
            => \A i \in 1..(Len(stack) - 1) : stack'[i] = stack[i]
       /\ (Running' /\ Len(stack') > Len(stack))
            => /\ Len(stack') = Len(stack) + 1
               /\ Kept(stack'[Len(stack)]) = Kept(Top)
               /\ stack'[Len(stack)].offset = Top.offset
       /\ (Running' /\ Len(stack') < Len(stack))
            => /\ Len(stack') = Len(stack) - 1
               /\ \A i \in 1..(Len(stack') - 1) : stack'[i] = stack[i]
               /\ Kept(Top') = Kept(stack[Len(stack')])]_vars

\* C4 witness: the target note is open while the previous note's session,
\* with an unsaved edit, waits in its jump.
C4_Witness ==
    /\ Running
    /\ Len(stack) = 2
    /\ ~stack[1].save_status
    /\ stack[1].buffer # LoadBuffer(fs, stack[1].file_path)

\* the files other than p are the same before and after the step
OnlyWrote(p) ==
    /\ DOMAIN fs' \subseteq DOMAIN fs \cup {p}
    /\ \A q \in DOMAIN fs : q # p => (q \in DOMAIN fs' /\ fs'[q] = fs[q])

\* C5: the editor writes to the filesystem only on the Save key (the current
\* file's path) and on the note creation of a jump; every other key event
\* leaves every file unchanged.
C5_WritesOnlyOnSaveOrCreate ==
    [][fs' # fs =>
          \E sz \in Sizes :
              \/ /\ KeySave(sz[1], sz[2]) \/ KeySaveFails(sz[1], sz[2])
                 /\ OnlyWrote(Top.file_path)
              \/ /\ KeyGotoMissing(sz[1], sz[2])
                 /\ OnlyWrote(JumpTarget(Top, JumpNote(sz[1])))]_vars

\* C5 witness: the session was quit after an edit and no file has changed.
C5_Witness ==
    /\ status = "quit"
    /\ edits >= 1
    /\ fs \in InitialVaults

\* C27: a jump never changes the content of a file that exists: its step
\* that creates the empty note runs only for a target with no file, so a
\* note created by an earlier jump and saved since keeps what was saved.
C27_AsStated ==
    [][Len(stack') > Len(stack) => \A p \in DOMAIN fs : fs'[p] = fs[p]]_vars

\* C28: Save followed by opening the same file again gives the buffer that
\* was saved, line for line, a buffer whose last line is empty included.
C28_AsStated ==
    [][\A sz \in Sizes :
          KeySave(sz[1], sz[2]) => LoadBuffer(fs', Top.file_path) = Top.buffer]_vars

\* C6 as stated: when the write of the Save key fails the session continues
\* with its buffer and cursor unchanged and its save status is not 'saved'.
C6_FailedSaveSurfaced ==
    [][\A sz \in Sizes :
          KeySaveFails(sz[1], sz[2])
          => /\ status' = "running"
             /\ Len(stack') = Len(stack)
             /\ Top'.buffer = Top.buffer
             /\ Top'.y = Top.y
             /\ Top'.x = Top.x
             /\ ~Top'.save_status]_vars

\* C8 as stated (editor): a draw request outside the terminal region is
\* dropped and never ends the session.
C8_DrawOutsideRegionDropped == status # "render_error"

-----------------------------------------------------------------------------
(* The note graph of a vault: build_note_graph, then build_incoming_links,  *)
(* as links.py and graph.py call them when a view opens.                    *)

NoEditor ==
    /\ fs = <<>>
    /\ stack = <<>>
    /\ status = "idle"
    /\ edits = 0

\* the texts a note of the vault may hold
NoteTexts ==
    { <<>>,
      Link(<<"A">>),
      Link(<<"B">>),
      Link(<<"C">>),
      Link(<<"B">>) \o <<"x">> \o Link(<<"B">>),
      Link(<<"A">>) \o <<NL>> \o Link(<<"B">>) }

\* what reading a listed note may give
Reads == {Content(t) : t \in NoteTexts} \cup {Failure(e) : e \in ReadErrors}

File(dir, name, r) == <<[path |-> path_join(dir, name), read |-> r]>>

\* the walks of the vault: A.md and the text file n in the root, B.md there
\* or not, and a second A.md in the directory d or not
Walks ==
    { File(vault_root, <<"A", MD>>, a)
        \o File(vault_root, <<"n">>, Content(Link(<<"A">>)))
        \o b \o d :
        a \in Reads,
        b \in {<<>>} \cup {File(vault_root, <<"B", MD>>, r) : r \in Reads},
        d \in {<<>>} \cup {File(vault_root \o <<SEP, "d">>, <<"A", MD>>, r) :
                              r \in {Content(Link(<<"B">>)), Failure("PermissionError")}} }

InitGraph ==
    /\ NoEditor
    /\ vault \in Walks
    /\ gpc = "build"
    /\ graph = EmptyDict
    /\ paths = EmptyDict
    /\ incoming = EmptyDict
    /\ layout = NoLayout
    /\ keylog = <<>>
    /\ boot = NoBoot
    /\ tree = NoTree
    /\ doc = NoDoc
    /\ view = NoView

\* graph, paths = build_note_graph(vault_root) returns
BuildGraph ==
    /\ gpc = "build"
    /\ build_note_graph(vault).ok
    /\ graph' = build_note_graph(vault).graph
    /\ paths' = build_note_graph(vault).paths
    /\ gpc' = "reverse"
    /\ UNCHANGED <<vault, incoming, editorVars, layoutVars, keysVars, bootVars, treeVars, docVars, viewVars>>

\* build_note_graph(vault_root) is left by an exception of a read
BuildGraphRaises ==
    /\ gpc = "build"
    /\ ~build_note_graph(vault).ok
    /\ gpc' = "failed"
    /\ UNCHANGED <<vault, graph, paths, incoming, editorVars, layoutVars, keysVars, bootVars, treeVars, docVars, viewVars>>

\* incoming = build_incoming_links(graph) returns
BuildIncoming ==
    /\ gpc = "reverse"
    /\ incoming' = build_incoming_links(graph)
    /\ gpc' = "done"
    /\ UNCHANGED <<vault, graph, paths, editorVars, layoutVars, keysVars, bootVars, treeVars, docVars, viewVars>>

NextGraph ==
    \/ BuildGraph
    \/ BuildGraphRaises
    \/ BuildIncoming

SpecGraph == InitGraph /\ [][NextGraph]_vars

-----------------------------------------------------------------------------
(* Claims about the note graph, checked under SpecGraph.                    *)

\* the walk with every failing read replaced by the read of an empty file
AsEmpty(walk) ==
    [i \in 1..Len(walk) |->
        IF walk[i].read.err = "none" THEN walk[i]
        ELSE [walk[i] EXCEPT !.read = Content(<<>>)]]

\* C7 as stated: whatever makes the read of a note fail, the build completes,
\* and its graph is the graph of the same vault with the failing notes empty
\* (so each failing note is in graph with no outbound link).
C7_BuildToleratesReadFailures ==
    /\ gpc # "failed"
    /\ gpc \in {"reverse", "done"} => graph = build_note_graph(AsEmpty(vault)).graph

\* the names that occur in the graph, as keys or as targets
Names(g) == KeySet(g) \cup UNION {Elems(g.val[i]) : i \in 1..Len(g.val)}

C26_AsStated ==
    gpc = "done" =>
        \A t \in KeySet(incoming) : t \notin Elems(Get(incoming, t))

-----------------------------------------------------------------------------
(* graph.py: force_layout.  The floats of the code are fixed-point numbers  *)
(* here: the integer X stands for the coordinate X / Scale, a quotient is   *)
(* cut toward zero and a square root is rounded down.                       *)

\* units per screen cell; the 0.01 of lines 41 and 58 is one unit
Scale == 100

\* a / b cut toward zero, b > 0
Quot(a, b) == IF a >= 0 THEN a \div b ELSE -((-a) \div b)

RECURSIVE IsqrtIn(_, _, _)
IsqrtIn(n, lo, hi) ==
    IF lo >= hi THEN lo
    ELSE LET mid == (lo + hi + 1) \div 2
         IN  IF mid * mid <= n THEN IsqrtIn(n, mid, hi) ELSE IsqrtIn(n, lo, mid - 1)

\* math.sqrt(n), rounded down
Isqrt(n) == IsqrtIn(n, 0, Min(n, 30000))

\* line 28: k = sqrt(width * height / (len(graph) + 1)), in units
IdealDistance(g, width, height) ==
    Isqrt((Scale * Scale * width * height) \div (Len(g.keys) + 1))

\* lines 39-41 and 56-58: dx, dy and dist of the positions pv and pu
Apart(pv, pu) ==
    LET dx == pv[1] - pu[1]
        dy == pv[2] - pu[2]
    IN  [dx |-> dx, dy |-> dy, dist |-> Isqrt(dx * dx + dy * dy) + Scale \div 100]

\* lines 44-50: what the node at pu adds to disp[v] of the node at pv
Repulsion(pv, pu, k) ==
    LET a == Apart(pv, pu)
        force == IF a.dist < 2 * Scale
                 THEN 5 * (2 * Scale - a.dist)
                 ELSE Quot(2 * k * k, 100 * a.dist)
    IN  <<Quot(a.dx * force, a.dist), Quot(a.dy * force, a.dist)>>

\* lines 59-65: what the link from the node at pv to the node at pu adds to disp[u]
\* and takes from disp[v]
Attraction(pv, pu, k) ==
    LET a == Apart(pv, pu)
        force == Quot(a.dist * a.dist, k)
    IN  <<Quot(a.dx * force, a.dist), Quot(a.dy * force, a.dist)>>

Plus(a, b) == <<a[1] + b[1], a[2] + b[2]>>
Minus(a, b) == <<a[1] - b[1], a[2] - b[2]>>

\* lines 36-50: disp[v] after the repulsion of the nodes u.. of the graph
RECURSIVE RepelFrom(_, _, _, _)
RepelFrom(pos, k, v, u) ==
    IF u > Len(pos) THEN <<0, 0>>
    ELSE Plus(IF u # v THEN Repulsion(pos[v], pos[u], k) ELSE <<0, 0>>,
              RepelFrom(pos, k, v, u + 1))

\* the links of v without the test of line 55: a target that is no note
\* pulls v as a node in the corner of the region would
RECURSIVE AttractTargetsAnyTarget(_, _, _, _, _, _)
AttractTargetsAnyTarget(g, pos, k, disp, v, j) ==
    IF j > Len(g.val[v]) THEN disp
    ELSE IF ~Has(g, g.val[v][j])
    THEN AttractTargetsAnyTarget(
            g, pos, k,
            [disp EXCEPT ![v] = Minus(disp[v], Attraction(pos[v], <<0, 0>>, k))],
            v, j + 1)
    ELSE LET u == KeyIndex(g, g.val[v][j])
             pull == Attraction(pos[v], pos[u], k)
             less == [disp EXCEPT ![v] = Minus(disp[v], pull)]
             more == [less EXCEPT ![u] = Plus(less[u], pull)]
         IN  AttractTargetsAnyTarget(g, pos, k, more, v, j + 1)

\* lines 54-65: disp after the links v -> targets[j..]
RECURSIVE AttractTargets(_, _, _, _, _, _)
AttractTargets(g, pos, k, disp, v, j) ==
    IF j > Len(g.val[v]) THEN disp
    ELSE IF ~Has(g, g.val[v][j]) THEN AttractTargets(g, pos, k, disp, v, j + 1)
    ELSE LET u == KeyIndex(g, g.val[v][j])
             pull == Attraction(pos[v], pos[u], k)
             less == [disp EXCEPT ![v] = Minus(disp[v], pull)]
             more == [less EXCEPT ![u] = Plus(less[u], pull)]
         IN  AttractTargets(g, pos, k, more, v, j + 1)

\* line 53: for v, targets in graph.items(), from entry v on
RECURSIVE AttractFrom(_, _, _, _, _)
AttractFrom(g, pos, k, disp, v) ==
    IF v > Len(g.keys) THEN disp
    ELSE AttractFrom(g, pos, k, AttractTargets(g, pos, k, disp, v, 1), v + 1)

\* a position left as the move put it
NoClamp(c, lo, hi) == c

\* lines 76-77: min(hi, max(lo, c))
Clamp(c, lo, hi) == Min(hi, Max(lo, c))

\* lines 69-77: the node at p moved one cell along d, then clamped
Moved(p, d, width, height) ==
    LET dist == Isqrt(d[1] * d[1] + d[2] * d[2])
        q == IF dist > 0
             THEN <<p[1] + Quot(d[1] * Scale, dist), p[2] + Quot(d[2] * Scale, dist)>>
             ELSE p
    IN  <<Clamp(q[1], Scale, (width - 2) * Scale),
          Clamp(q[2], Scale, (height - 3) * Scale)>>

\* lines 31-77: the positions after one simulation round
Round(g, pos, width, height) ==
    LET k == IdealDistance(g, width, height)
        repelled == [v \in 1..Len(pos) |-> RepelFrom(pos, k, v, 1)]
        disp == AttractFrom(g, pos, k, repelled, 1)
    IN  [v \in 1..Len(pos) |-> Moved(pos[v], disp[v], width, height)]

\* line 80: int(x), int(y) of every position
Truncated(pos) == [v \in 1..Len(pos) |-> <<pos[v][1] \div Scale, pos[v][2] \div Scale>>]

\* the rounds a call may ask for (the default of the code is 200)
MaxIterations == 3

\* the regions, <<width, height>>
Regions == {<<3, 4>>, <<4, 5>>, <<5, 6>>}

Dict(ks, vs) == [keys |-> ks, val |-> vs]

\* the graphs laid out: no note, one note, two notes without a link, a link
\* and a link to a missing note, links both ways and twice, a note linking
\* to itself, three notes
LayoutGraphs ==
    { EmptyDict,
      Dict(<<"A">>, << <<>> >>),
      Dict(<<"A", "B">>, << <<>>, <<>> >>),
      Dict(<<"A", "B">>, << <<"B", "C">>, <<>> >>),
      Dict(<<"A", "B">>, << <<"B", "B">>, <<"A">> >>),
      Dict(<<"A", "B">>, << <<"A">>, <<>> >>),
      Dict(<<"A", "B", "C">>, << <<"B">>, <<"C">>, <<>> >>) }

\* lines 22-25: random.randint(1, width - 2), random.randint(1, height - 3)
InitialPositions(n, width, height) ==
    [1..n -> {<<x * Scale, y * Scale>> : x \in 1..(width - 2), y \in 1..(height - 3)}]

InitLayout ==
    /\ NoEditor
    /\ vault = <<>>
    /\ gpc = "idle"
    /\ graph = EmptyDict
    /\ paths = EmptyDict
    /\ incoming = EmptyDict
    /\ keylog = <<>>
    /\ boot = NoBoot
    /\ tree = NoTree
    /\ doc = NoDoc
    /\ view = NoView
    /\ \E g \in LayoutGraphs, r \in Regions, n \in 0..MaxIterations :
          \E pos \in InitialPositions(Len(g.keys), r[1], r[2]) :
              layout = [pc |-> "loop", graph |-> g, width |-> r[1], height |-> r[2],
                        iterations |-> n, round |-> 0, positions |-> pos,
                        result |-> <<>>]

\* lines 30-77: one round of the loop
LayoutRound ==
    /\ layout.pc = "loop"
    /\ layout.round < layout.iterations
    /\ layout' = [layout EXCEPT
                     !.round = @ + 1,
                     !.positions = Round(layout.graph, @, layout.width, layout.height)]
    /\ UNCHANGED <<editorVars, graphVars, keysVars, bootVars, treeVars, docVars, viewVars>>

\* line 80: the loop is over, force_layout returns
LayoutReturn ==
    /\ layout.pc = "loop"
    /\ layout.round = layout.iterations
    /\ layout' = [layout EXCEPT !.pc = "done", !.result = Truncated(layout.positions)]
    /\ UNCHANGED <<editorVars, graphVars, keysVars, bootVars, treeVars, docVars, viewVars>>

NextLayout ==
    \/ LayoutRound
    \/ LayoutReturn

SpecLayout == InitLayout /\ [][NextLayout]_vars

-----------------------------------------------------------------------------
(* Claims about the layout, checked under SpecLayout.                       *)

\* C10: in a region with width >= 3 and height >= 4, for every graph, every
\* number of rounds and every initial position, 1 <= x <= width - 2 and
\* 1 <= y <= height - 3 for each node after each round and for each
\* position force_layout returns.
C10_LayoutInsideRegion ==
    /\ \A v \in 1..Len(layout.positions) :
          /\ Scale <= layout.positions[v][1]
          /\ layout.positions[v][1] <= (layout.width - 2) * Scale
          /\ Scale <= layout.positions[v][2]
          /\ layout.positions[v][2] <= (layout.height - 3) * Scale
    /\ \A v \in 1..Len(layout.result) :
          /\ 1 <= layout.result[v][1]
          /\ layout.result[v][1] <= layout.width - 2
          /\ 1 <= layout.result[v][2]
          /\ layout.result[v][2] <= layout.height - 3

\* C10 witness: force_layout returned after its rounds with one node on the
\* left edge of the region and another on the right edge.
C10_Witness ==
    /\ layout.pc = "done"
    /\ layout.round >= 2
    /\ layout.width >= 4
    /\ \E u \in 1..Len(layout.result), v \in 1..Len(layout.result) :
          /\ layout.result[u][1] = 1
          /\ layout.result[v][1] = layout.width - 2


\* C24: force_layout returns for every node the integers nearest to its
\* coordinates after the last round.
C24_AsStated ==
    layout.pc = "done" =>
        \A v \in 1..Len(layout.positions) :
            layout.result[v] = <<(layout.positions[v][1] + Scale \div 2) \div Scale,
                                 (layout.positions[v][2] + Scale \div 2) \div Scale>>

\* the graph g without the link targets that are no keys of g
Strip(g) ==
    [keys |-> g.keys,
     val |-> [i \in 1..Len(g.keys) |-> SelectSeq(g.val[i], LAMBDA t : Has(g, t))]]

\* C25: force_layout keeps one position for each key of graph and for
\* nothing else (none for the empty graph, one for a single note), and a
\* link target that is no key of graph has no position and moves no node:
\* every round gives what it gives for the graph without such targets.
C25_LayoutKeysAreGraphKeys ==
    /\ DOMAIN layout.positions = 1..Len(layout.graph.keys)
    /\ layout.pc = "done" => DOMAIN layout.result = 1..Len(layout.graph.keys)
    /\ layout.pc = "loop" =>
          Round(layout.graph, layout.positions, layout.width, layout.height)
          = Round(Strip(layout.graph), layout.positions, layout.width, layout.height)

\* C25 witness: force_layout returned two positions, after all its rounds,
\* for the graph of two notes whose first links to the second and to a
\* note that does not exist, the two no longer where they started.
C25_Witness ==
    /\ layout.pc = "done"
    /\ layout.graph = Dict(<<"A", "B">>, << <<"B", "C">> , <<>> >>)
    /\ layout.round = MaxIterations
    /\ Len(layout.result) = 2
    /\ layout.positions[1][1] % Scale # 0

-----------------------------------------------------------------------------
(* The key handlers of editing_screen (lines 155-218) on any buffer and     *)
(* cursor: keylog holds the locals after each key event of one activation.  *)

\* key events handled per run
MaxKeys == 3

\* the rows of the terminal in these runs
KeysHeight == 3

\* the lines and the buffers a run starts from
KeyLines == {<<>>, <<"a">>, <<"a", "b">>}
KeyBuffers == {<<l>> : l \in KeyLines} \cup {<<l, m>> : l \in KeyLines, m \in KeyLines}

\* the characters typed in these runs
Typed == {"x", "["}

\* the locals of an activation whose earlier key events made buffer b with
\* the cursor at (y, x)
StartFrame(b, y, x) ==
    AdjustScroll([OpenFrame(APath, [p \in {APath} |-> join(b)])
                     EXCEPT !.buffer = b, !.y = y, !.x = x],
                 KeysHeight)

Cur == keylog[Len(keylog)].f

InitKeys ==
    /\ NoEditor
    /\ vault = <<>>
    /\ gpc = "idle"
    /\ graph = EmptyDict
    /\ paths = EmptyDict
    /\ incoming = EmptyDict
    /\ layout = NoLayout
    /\ boot = NoBoot
    /\ tree = NoTree
    /\ doc = NoDoc
    /\ view = NoView
    /\ \E b \in KeyBuffers :
          \E y \in 0..(Len(b) - 1) :
             \E x \in 0..Len(b[y + 1]) :
                keylog = <<[key |-> "open", ch |-> "", f |-> StartFrame(b, y, x)]>>

\* the loop is at getch() and the run has keys left
AtKey == Len(keylog) <= MaxKeys

\* one iteration of the loop from getch() on: the branch of the key, then
\* lines 214-218
Press(key, ch, f) ==
    /\ keylog' = Append(keylog, [key |-> key, ch |-> ch, f |-> AdjustScroll(f, KeysHeight)])
    /\ UNCHANGED <<editorVars, graphVars, layoutVars, bootVars, treeVars, docVars, viewVars>>

PressEnter ==
    /\ AtKey
    /\ Press("Enter", "", SplitLine(Cur))

PressTab ==
    /\ AtKey
    /\ Press("Tab", "", Indent(Cur))

PressBackspace ==
    /\ AtKey
    /\ Press("Backspace", "", Backspace(Cur))

PressPrintable ==
    /\ AtKey
    /\ \E ch \in Typed : Press("Printable", ch, InsertChar(Cur, ch))

PressLeft ==
    /\ AtKey
    /\ Press("Left", "", CursorLeft(Cur))

PressRight ==
    /\ AtKey
    /\ Press("Right", "", CursorRight(Cur))

PressUp ==
    /\ AtKey
    /\ Press("Up", "", CursorUp(Cur))

PressDown ==
    /\ AtKey
    /\ Press("Down", "", CursorDown(Cur))

\* a key code no branch takes
PressOther ==
    /\ AtKey
    /\ Press("Other", "", Cur)

NextKeys ==
    \/ PressEnter
    \/ PressTab
    \/ PressBackspace
    \/ PressPrintable
    \/ PressLeft
    \/ PressRight
    \/ PressUp
    \/ PressDown
    \/ PressOther

SpecKeys == InitKeys /\ [][NextKeys]_vars

-----------------------------------------------------------------------------
(* Claims about the key handlers, checked under SpecKeys.                   *)

\* the positions of keylog reached by the key k
After(k) == {i \in 2..Len(keylog) : keylog[i].key = k}

SameCursor(f, g) == g.y = f.y /\ g.x = f.x

SameText(f, g) == g.buffer = f.buffer

\* g's buffer is f's with the current line of f replaced by new
LineReplaced(f, g, new) ==
    /\ Len(g.buffer) = Len(f.buffer)
    /\ \A r \in 1..Len(f.buffer) :
          g.buffer[r] = IF r = f.y + 1 THEN new ELSE f.buffer[r]

\* C11: Enter immediately followed by Backspace leaves the lines, the cursor
\* row and the cursor column as they were before the two key events.
C11_EnterBackspaceRestores ==
    \A i \in After("Backspace") :
        (i >= 3 /\ keylog[i - 1].key = "Enter")
        => /\ SameText(keylog[i - 2].f, keylog[i].f)
           /\ SameCursor(keylog[i - 2].f, keylog[i].f)

\* C11 witness: a line was split between its two characters and merged again.
C11_Witness ==
    /\ Len(keylog) = 3
    /\ keylog[2].key = "Enter"
    /\ keylog[3].key = "Backspace"
    /\ keylog[1].f.x = 1
    /\ keylog[1].f.buffer[keylog[1].f.y + 1] = <<"a", "b">>
    /\ Len(keylog[2].f.buffer) = Len(keylog[1].f.buffer) + 1

\* C12: Backspace with col > 0 removes the character before the cursor and
\* decrements col, other lines unchanged; with col = 0 and row > 0 it makes
\* the previous line prevLine + currentLine, removes the current line and
\* puts the cursor at row - 1, column len(prevLine); at (0, 0) it changes
\* neither the lines nor the cursor.
C12_Backspace ==
    \A i \in After("Backspace") :
        LET f == keylog[i - 1].f
            g == keylog[i].f
            line == f.buffer[f.y + 1]
        IN  /\ f.x > 0
                => /\ LineReplaced(f, g, Take(line, f.x - 1) \o Drop(line, f.x))
                   /\ g.y = f.y
                   /\ g.x = f.x - 1
            /\ (f.x = 0 /\ f.y > 0)
                => /\ Len(g.buffer) = Len(f.buffer) - 1
                   /\ \A r \in 1..Len(g.buffer) :
                         g.buffer[r] = IF r < f.y THEN f.buffer[r]
                                       ELSE IF r = f.y THEN f.buffer[f.y] \o line
                                       ELSE f.buffer[r + 1]
                   /\ g.y = f.y - 1
                   /\ g.x = Len(f.buffer[f.y])
            /\ (f.x = 0 /\ f.y = 0)
                => SameText(f, g) /\ SameCursor(f, g)

\* C12 witness: Backspace at column 0 of the second line merged it into a
\* first line that was not empty.
C12_Witness ==
    \E i \in After("Backspace") :
        /\ keylog[i - 1].f.x = 0
        /\ keylog[i - 1].f.y = 1
        /\ keylog[i - 1].f.buffer[1] # <<>>
        /\ keylog[i - 1].f.buffer[2] # <<>>

\* C13: a printable key inserts its character at the cursor column of the
\* current line and advances the column by one, the row, the line count and
\* the other lines unchanged; a key code no branch takes changes neither the
\* buffer nor the cursor.
C13_PrintableInserts ==
    /\ \A i \in After("Printable") :
          LET f == keylog[i - 1].f
              g == keylog[i].f
              line == f.buffer[f.y + 1]
          IN  /\ LineReplaced(f, g, Take(line, f.x) \o <<keylog[i].ch>> \o Drop(line, f.x))
              /\ g.y = f.y
              /\ g.x = f.x + 1
    /\ \A i \in After("Other") :
          SameText(keylog[i - 1].f, keylog[i].f) /\ SameCursor(keylog[i - 1].f, keylog[i].f)

\* C13 witness: a character was typed between the two characters of a line
\* of a two-line buffer.
C13_Witness ==
    \E i \in After("Printable") :
        /\ keylog[i - 1].f.x = 1
        /\ keylog[i - 1].f.buffer[keylog[i - 1].f.y + 1] = <<"a", "b">>
        /\ Len(keylog[i - 1].f.buffer) = 2

\* the keys of keylog from position 2 on are all the key k
Only(k) == \A i \in 2..Len(keylog) : keylog[i].key = k

\* C14: Left and Right never change the buffer; Left decrements col when
\* col > 0, wraps to the end of the previous line at col 0 of a later row and
\* does nothing at (0, 0); Right increments col inside the line, wraps to
\* column 0 of the next line at the end of a line that has one and does
\* nothing at the end of the last line; so on a single line with the cursor
\* at its end n, k Left events leave the cursor at column max(n - k, 0).
C14_LeftRight ==
    /\ \A i \in After("Left") :
          LET f == keylog[i - 1].f
              g == keylog[i].f
          IN  /\ SameText(f, g)
              /\ f.x > 0 => (g.y = f.y /\ g.x = f.x - 1)
              /\ (f.x = 0 /\ f.y > 0) => (g.y = f.y - 1 /\ g.x = Len(f.buffer[f.y]))
              /\ (f.x = 0 /\ f.y = 0) => SameCursor(f, g)
    /\ \A i \in After("Right") :
          LET f == keylog[i - 1].f
              g == keylog[i].f
              n == Len(f.buffer[f.y + 1])
          IN  /\ SameText(f, g)
              /\ f.x < n => (g.y = f.y /\ g.x = f.x + 1)
              /\ (f.x = n /\ f.y < Len(f.buffer) - 1) => (g.y = f.y + 1 /\ g.x = 0)
              /\ (f.x = n /\ f.y = Len(f.buffer) - 1) => SameCursor(f, g)
    /\ (/\ Only("Left")
        /\ Len(keylog[1].f.buffer) = 1
        /\ keylog[1].f.x = Len(keylog[1].f.buffer[1]))
       => /\ Cur.y = 0
          /\ Cur.x = Max(keylog[1].f.x - (Len(keylog) - 1), 0)

\* C14 witness: from the end of a single line of two characters, three Left
\* events were handled, the last one at (0, 0).
C14_Witness ==
    /\ Len(keylog) = 4
    /\ Only("Left")
    /\ keylog[1].f.buffer = << <<"a", "b">> >>
    /\ keylog[1].f.x = 2

\* C15: Up and Down never change the buffer; Up with row > 0 moves to
\* row - 1 with col = min(col, len(that line)), Up at row 0 keeps the row and
\* sets col to 0; Down with a next line moves to row + 1 with
\* col = min(col, len(that line)), Down at the last row keeps the row and
\* sets col to the length of its line.
C15_UpDown ==
    /\ \A i \in After("Up") :
          LET f == keylog[i - 1].f
              g == keylog[i].f
          IN  /\ SameText(f, g)
              /\ f.y > 0 => (g.y = f.y - 1 /\ g.x = Min(f.x, Len(f.buffer[f.y])))
              /\ f.y = 0 => (g.y = 0 /\ g.x = 0)
    /\ \A i \in After("Down") :
          LET f == keylog[i - 1].f
              g == keylog[i].f
          IN  /\ SameText(f, g)
              /\ f.y < Len(f.buffer) - 1
                    => (g.y = f.y + 1 /\ g.x = Min(f.x, Len(f.buffer[f.y + 2])))
              /\ f.y = Len(f.buffer) - 1
                    => (g.y = f.y /\ g.x = Len(f.buffer[f.y + 1]))

\* C15 witness: Up from column 2 of the second line reached a shorter first
\* line, and Down was handled on the last row.
C15_Witness ==
    /\ \E i \in After("Up") :
          /\ keylog[i - 1].f.y = 1
          /\ keylog[i - 1].f.x = 2
          /\ Len(keylog[i - 1].f.buffer[1]) < 2
    /\ \E i \in After("Down") :
          keylog[i - 1].f.y = Len(keylog[i - 1].f.buffer) - 1

\* C30: a key event that leaves the lines of the buffer as they were leaves
\* the save status as it was, and the status is "unsaved" only if some key
\* event since the load changed the lines.
C30_AsStated ==
    /\ \A i \in 2..Len(keylog) :
          SameText(keylog[i - 1].f, keylog[i].f)
          => keylog[i].f.save_status = keylog[i - 1].f.save_status
    /\ ~Cur.save_status
          => \E i \in 2..Len(keylog) : ~SameText(keylog[i - 1].f, keylog[i].f)

-----------------------------------------------------------------------------
(* boot.py: bootup_screen and the worker thread that runs                   *)
(* precompute_for_mode.  One action per iteration of the splash loop and    *)
(* one per step of the worker; the two interleave freely.                   *)

\* space presses handled per boot
MaxSpaces == 2

\* min_duration (line 121) in sleeps of line 186: 3.0 / 0.25
MinTicks == 12

\* len(tooltips)
NumTooltips == 43

\* iterations of force_layout as line 98 calls it (the default of graph.py line 19)
LayoutIterations == 200

\* the process-wide generator of the random module: its state after one more
\* draw, and the draw's value from the state
NextRandom(r) == (5 * r + 3) % 16

\* random.randint(a, b) with the generator in state r
randint(a, b, r) == a + (r % (b - a + 1))

\* random.choice(tooltips) with the generator in state r: the index chosen
choice(r) == r % NumTooltips

\* lines 30-77 of graph.py: n rounds from the positions pos, as n \div 2
\* rounds followed by the rest (the comparison settles the value of half
\* before the rest is computed from it)
RECURSIVE Rounds(_, _, _, _, _)
Rounds(g, pos, width, height, n) ==
    IF n = 0 THEN pos
    ELSE IF n = 1 THEN Round(g, pos, width, height)
    ELSE LET half == Rounds(g, pos, width, height, n \div 2)
         IN  IF half = pos
             THEN Rounds(g, pos, width, height, n - (n \div 2))
             ELSE Rounds(g, half, width, height, n - (n \div 2))

\* force_layout(graph, width, height) run alone from the initial positions pos on
force_layout(g, pos, width, height) ==
    Truncated(Rounds(g, pos, width, height, LayoutIterations))

Modes == {"edit", "link-tree", "link-graph"}

\* the terminal at boot, <<height, width>> of line 109
BootSizes == {<<2, 8>>, <<6, 8>>}

\* the seeds of the generator
Seeds == {0, 7}

\* the vaults booted on: A.md links to B.md; or the read of A.md is refused
BootWalks ==
    { File(vault_root, <<"A", MD>>, Content(Link(<<"B">>)))
        \o File(vault_root, <<"B", MD>>, Content(<<>>)),
      File(vault_root, <<"A", MD>>, Failure("PermissionError")) }

\* the worker has left precompute_for_mode, by return or by an exception
Finished(b) == b.worker \in {"done", "failed"}

InitBoot ==
    /\ NoEditor
    /\ vault = <<>>
    /\ gpc = "idle"
    /\ graph = EmptyDict
    /\ paths = EmptyDict
    /\ incoming = EmptyDict
    /\ layout = NoLayout
    /\ keylog = <<>>
    /\ tree = NoTree
    /\ doc = NoDoc
    /\ view = NoView
    /\ \E mode \in Modes, size \in BootSizes, seed \in Seeds, walk \in BootWalks,
          blocks \in BOOLEAN :
          boot = [pc |-> "loop", mode |-> mode,
                  height |-> size[1], width |-> size[2],
                  seed |-> seed,
                  \* line 110 drew the first tooltip before the worker started
                  tip |-> choice(seed), rng |-> NextRandom(seed),
                  clock |-> 0, spaces |-> 0,
                  walk |-> walk,
                  \* line 117: the worker starts; a read that never returns
                  \* (a FIFO named as a note) blocks it for good
                  worker |-> IF mode = "edit" THEN "start"
                             ELSE IF blocks THEN "blocked" ELSE "build",
                  graph |-> EmptyDict, paths |-> EmptyDict, incoming |-> EmptyDict,
                  positions |-> <<>>, round |-> 0,
                  fg_draws |-> 0, worker_draws |-> 0,
                  screen |-> "none", shown |-> <<>>]

BootOther == UNCHANGED <<editorVars, graphVars, layoutVars, keysVars, treeVars, docVars, viewVars>>

\* lines 125-155: an addstr of the splash raises curses.error
SplashFails(b) == b.height < 3

\* the loop test of line 124 holds and the splash draws
InLoop ==
    /\ boot.pc = "loop"
    /\ ~Finished(boot) \/ boot.clock < MinTicks
    /\ ~SplashFails(boot)

\* the time of one iteration: the sleep of line 186, or a second
Elapse(c) == {Min(c + d, MinTicks) : d \in {1, 4}}

\* lines 124-187: an iteration whose getch() gives no key or a key other than space
BootIdle ==
    /\ InLoop
    /\ \E c \in Elapse(boot.clock) : boot' = [boot EXCEPT !.clock = c]
    /\ BootOther

\* lines 159-184: an iteration whose getch() gives the space key
BootSpace ==
    /\ InLoop
    /\ boot.spaces < MaxSpaces
    /\ \E c \in Elapse(boot.clock) :
          boot' = [boot EXCEPT !.clock = c,
                               !.spaces = @ + 1,
                               !.tip = choice(boot.rng),
                               !.rng = NextRandom(boot.rng),
                               !.fg_draws = @ + 1]
    /\ BootOther

\* lines 130-154: the draw raises; the with block (line 116) is left by the
\* exception and waits for the worker
BootDrawError ==
    /\ boot.pc = "loop"
    /\ ~Finished(boot) \/ boot.clock < MinTicks
    /\ SplashFails(boot)
    /\ boot' = [boot EXCEPT !.pc = "shutdown"]
    /\ BootOther

\* the end of the with block after an exception: shutdown(wait=True) returns
\* when the worker has finished, and the exception leaves bootup_screen
BootShutdown ==
    /\ boot.pc = "shutdown"
    /\ Finished(boot)
    /\ boot' = [boot EXCEPT !.pc = "raised"]
    /\ BootOther

\* what the worker returned (lines 86, 91, 99)
Result(b) ==
    [graph |-> b.graph, paths |-> b.paths, incoming |-> b.incoming,
     positions |-> b.positions]

\* the loop of line 124 with "and" for "or": it is left as soon as either the
\* worker has finished or the minimum time has passed
BootLaunchOnEither ==
    /\ boot.pc = "loop"
    /\ boot.worker = "done" \/ boot.clock >= MinTicks
    /\ boot' = [boot EXCEPT !.pc = "launched", !.screen = boot.mode,
                            !.shown = Result(boot)]
    /\ BootOther

\* lines 124, 190-222: the loop test fails, future.result() returns and the
\* screen of the mode is called
BootLaunch ==
    /\ boot.pc = "loop"
    /\ boot.worker = "done"
    /\ boot.clock >= MinTicks
    /\ boot' = [boot EXCEPT !.pc = "launched", !.screen = boot.mode,
                            !.shown = Result(boot)]
    /\ BootOther

\* lines 124, 190: the loop test fails and future.result() raises the
\* worker's exception
BootResultRaises ==
    /\ boot.pc = "loop"
    /\ boot.worker = "failed"
    /\ boot.clock >= MinTicks
    /\ boot' = [boot EXCEPT !.pc = "raised"]
    /\ BootOther

\* lines 84-86: precompute_for_mode in edit mode
WorkerEdit ==
    /\ boot.worker = "start"
    /\ boot' = [boot EXCEPT !.worker = "done"]
    /\ BootOther

\* lines 89 and 94: build_note_graph returns
WorkerBuild ==
    /\ boot.worker = "build"
    /\ build_note_graph(boot.walk).ok
    /\ boot' = [boot EXCEPT !.worker = "incoming",
                            !.graph = build_note_graph(boot.walk).graph,
                            !.paths = build_note_graph(boot.walk).paths]
    /\ BootOther

\* lines 89 and 94: build_note_graph raises
WorkerBuildRaises ==
    /\ boot.worker = "build"
    /\ ~build_note_graph(boot.walk).ok
    /\ boot' = [boot EXCEPT !.worker = "failed"]
    /\ BootOther

\* lines 90-91 and 95-96
WorkerIncoming ==
    /\ boot.worker = "incoming"
    /\ boot' = [boot EXCEPT !.incoming = build_incoming_links(boot.graph),
                            !.worker = IF boot.mode = "link-graph" THEN "draw" ELSE "done"]
    /\ BootOther

\* graph.py lines 22-25 for the next note: two draws of the generator
WorkerDraw ==
    /\ boot.worker = "draw"
    /\ Len(boot.positions) < Len(boot.graph.keys)
    /\ boot.width >= 3 /\ boot.height >= 4
    /\ boot' = [boot EXCEPT
                   !.positions = Append(@,
                       <<Scale * randint(1, boot.width - 2, boot.rng),
                         Scale * randint(1, boot.height - 3, NextRandom(boot.rng))>>),
                   !.rng = NextRandom(NextRandom(boot.rng)),
                   !.worker_draws = @ + 2]
    /\ BootOther

\* graph.py lines 23: randint(1, b) with b < 1 raises ValueError
WorkerDrawRaises ==
    /\ boot.worker = "draw"
    /\ Len(boot.positions) < Len(boot.graph.keys)
    /\ boot.width < 3 \/ boot.height < 4
    /\ boot' = [boot EXCEPT !.worker = "failed"]
    /\ BootOther

\* graph.py lines 30-77: one round of the loop
WorkerRound ==
    /\ boot.worker = "draw"
    /\ Len(boot.positions) = Len(boot.graph.keys)
    /\ boot.round < LayoutIterations
    /\ boot' = [boot EXCEPT
                   !.round = @ + 1,
                   !.positions = Round(boot.graph, @, boot.width, boot.height)]
    /\ BootOther

\* graph.py line 80, then line 99: force_layout and the worker return
WorkerLayout ==
    /\ boot.worker = "draw"
    /\ Len(boot.positions) = Len(boot.graph.keys)
    /\ boot.round = LayoutIterations
    /\ boot' = [boot EXCEPT !.positions = Truncated(@), !.worker = "done"]
    /\ BootOther

Foreground ==
    \/ BootIdle
    \/ BootSpace
    \/ BootDrawError
    \/ BootShutdown
    \/ BootLaunch
    \/ BootResultRaises

Worker ==
    \/ WorkerEdit
    \/ WorkerBuild
    \/ WorkerBuildRaises
    \/ WorkerIncoming
    \/ WorkerDraw
    \/ WorkerDrawRaises
    \/ WorkerRound
    \/ WorkerLayout

NextBoot == Foreground \/ Worker

SpecBoot == InitBoot /\ [][NextBoot]_vars

\* the main thread keeps running and time advances; the worker may stop for
\* good at any step
SpecBootFair == SpecBoot /\ WF_vars(Foreground)

-----------------------------------------------------------------------------
(* Claims about the boot screen                                             *)

\* C16: an interactive screen is launched only when the precomputation has
\* completed and at least min_duration has passed since the boot screen
\* started, it is the screen of the requested mode, and what it is given is
\* the result the worker returned.
C16_LaunchAfterPrecomputeAndMinTime ==
    boot.screen # "none" =>
        /\ boot.pc = "launched"
        /\ boot.worker = "done"
        /\ boot.clock >= MinTicks
        /\ boot.screen = boot.mode
        /\ boot.shown = Result(boot)

\* the graph view is launched with the positions of both notes, after a
\* space press
C16_Witness ==
    /\ boot.screen = "link-graph"
    /\ boot.spaces > 0
    /\ Len(boot.shown.positions) = 2

\* C17: between the submission of the precomputation and the retrieval of
\* its result the worker and the splash loop never use the same mutable
\* state, the generator of the random module included; and the result is
\* handed to the screen once, after the worker has finished.
C17_AsStated ==
    /\ ~(boot.fg_draws > 0 /\ boot.worker_draws > 0)
    /\ boot.screen # "none" => boot.worker = "done" /\ boot.shown = Result(boot)

\* graph.py lines 22-25 run alone: the initial positions of n notes drawn
\* one after the other from the generator in state r
RECURSIVE SeedPositions(_, _, _, _)
SeedPositions(n, width, height, r) ==
    IF n = 0 THEN <<>>
    ELSE <<  <<Scale * randint(1, width - 2, r),
               Scale * randint(1, height - 3, NextRandom(r))>>  >>
         \o SeedPositions(n - 1, width, height, NextRandom(NextRandom(r)))

\* the node positions of the boot b when no key is handled while the worker
\* runs: the generator is in the state line 110 left it in
SeedLayout(b) ==
    force_layout(b.graph,
                 SeedPositions(Len(b.graph.keys), b.width, b.height, NextRandom(b.seed)),
                 b.width, b.height)

\* C19: the node positions a link-graph boot hands to the graph view are
\* fixed by the seed, the vault and the screen size: they are those of the
\* boot that handles no key, whatever keys this boot handled.
C19_AsStated ==
    boot.screen = "link-graph" => boot.shown.positions = SeedLayout(boot)

\* C18: the boot has no cancellation path.  Once the precomputation has
\* completed, the loop is eventually left and the screen of the requested
\* mode is launched; and as long as the precomputation has not completed, no
\* screen is launched and bootup_screen does not end, whatever keys are
\* pressed.
C18_AsStated ==
    /\ [](boot.worker = "done" => <>(boot.screen = boot.mode))
    /\ [](~Finished(boot) =>
            boot.screen = "none" /\ boot.pc \in {"loop", "shutdown"})

-----------------------------------------------------------------------------
(* links.py: link_tree_screen.  One action per key of the loop, each from   *)
(* getch() to the next getch(): the branch of the key, then the draw and    *)
(* the cursor clamp of the next iteration.                                  *)

\* str(n) of a count below ten
str(n) == <<(<<"0", "1", "2", "3", "4", "5", "6", "7", "8", "9">>)[n + 1]>>

\* incoming.get(note, [])
GetOrEmpty(d, k) == IF Has(d, k) THEN Get(d, k) ELSE <<>>

\* lines 59-61 and 70-72: the lines of the links ns behind the arrow
RECURSIVE ArrowLines(_, _)
ArrowLines(arrow, ns) ==
    IF ns = <<>> THEN <<>>
    ELSE << <<" ", " ", " ", " ">> \o arrow \o <<" ">> \o Link(ns[1]) >>
         \o ArrowLines(arrow, Drop(ns, 1))

\* lines 59 and 70: f"  Incoming ({len(inc)})"
CountLine(word, n) == <<" ", " ">> \o word \o <<" ", "(">> \o str(n) \o <<")">>

\* lines 50-74 with sort=None: the lines of the notes from position i on
RECURSIVE NoteLines(_, _, _)
NoteLines(g, inc, i) ==
    IF i > Len(g.keys) THEN <<>>
    ELSE LET note == g.keys[i]
             in_ == GetOrEmpty(inc, note)
             out == g.val[i]
         IN  <<note>>
             \o <<CountLine(<<"I", "n", "c", "o", "m", "i", "n", "g">>, Len(in_))>>
             \o ArrowLines(<<"<", "-">>, in_)
             \o <<CountLine(<<"O", "u", "t", "g", "o", "i", "n", "g">>, Len(out))>>
             \o ArrowLines(<<"-", ">">>, out)
             \o << <<>> >>
             \o NoteLines(g, inc, i + 1)

\* line 88: lines[offset : offset + height - 1]
visible(t) == SubSeq(t.lines, t.offset + 1, Min(t.offset + t.height - 1, Len(t.lines)))

\* lines 91-108: the addstr calls for one line, ms its matches still to draw
RECURSIVE TreeLineDraws(_, _, _, _)
TreeLineDraws(line, row, ms, col) ==
    IF ms = <<>>
    THEN IF col < Len(line)
         THEN <<[y |-> row, x |-> col, n |-> Len(line) - col]>>
         ELSE <<>>
    ELSE <<[y |-> row, x |-> col, n |-> ms[1].x_start - col],
           [y |-> row, x |-> ms[1].x_start, n |-> ms[1].x_end - ms[1].x_start]>>
         \o TreeLineDraws(line, row, Drop(ms, 1), ms[1].x_end)

\* lines 91-128: an addstr of the frame raises curses.error (the status bar
\* of lines 123-128 is cut to width - 1 and fits)
TreeRenderFails(t) ==
    \E row \in 1..Len(visible(t)) :
        LET draws == TreeLineDraws(visible(t)[row], row - 1,
                                   finditer(visible(t)[row]), 0)
        IN  \E i \in 1..Len(draws) : AddstrFails(draws[i], t.height, t.width)

\* lines 131-134: the clamp of the cursor to the visible lines and the width
Clamped(t) ==
    [t EXCEPT !.cursor_y = Min(@, Len(visible(t)) - 1),
              !.cursor_x = Min(@, t.width - 1)]

\* line 136: stdscr.move(cursor_y, cursor_x) raises curses.error for a cell
\* outside the window
MoveFails(t) ==
    \/ t.cursor_y < 0 \/ t.cursor_y >= t.height
    \/ t.cursor_x < 0 \/ t.cursor_x >= t.width

\* lines 93-103: links_on_screen of the visible lines
TreeLinks(t) == LinksFrom(visible(t), 1, Len(visible(t)))

\* lines 159-165: the first link on screen that holds the cursor
TreeLink(t) == FirstUnder(TreeLinks(t), t.cursor_y, t.cursor_x)

\* lines 84-138: the next iteration up to getch(): the draw, then the clamp
\* of the cursor and its move
Shown(t) ==
    IF TreeRenderFails(t) THEN [t EXCEPT !.pc = "raised"]
    ELSE IF MoveFails(Clamped(t)) THEN [Clamped(t) EXCEPT !.pc = "move_raised"]
    ELSE Clamped(t)

\* the terminals of the link tree, <<height, width>>
TreeSizes == {<<3, 16>>, <<6, 16>>, <<3, 4>>}

\* the vaults of the link tree: A links to B and to the missing C; or no note
TreeVaults ==
    { [p \in {APath, BPath} |-> IF p = APath THEN Link(<<"B">>) \o Link(<<"C">>) ELSE <<"b">>],
      [p \in {} |-> <<>>] }

InitTree ==
    /\ fs \in TreeVaults
    /\ stack = <<>>
    /\ status = "idle"
    /\ edits = 0
    /\ vault = <<>>
    /\ gpc = "idle"
    /\ graph = EmptyDict
    /\ paths = EmptyDict
    /\ incoming = EmptyDict
    /\ layout = NoLayout
    /\ keylog = <<>>
    /\ boot = NoBoot
    /\ doc = NoDoc
    /\ view = NoView
    /\ \E size \in TreeSizes :
          LET built == build_note_graph(os_walk(fs))
          IN  tree = Shown([pc |-> "view",
                            lines |-> NoteLines(built.graph, build_incoming_links(built.graph), 1),
                            paths |-> built.paths,
                            cursor_y |-> 0, cursor_x |-> 0, offset |-> 0,
                            height |-> size[1], width |-> size[2],
                            key |-> "none"])

TreeOther == UNCHANGED <<graphVars, layoutVars, keysVars, bootVars, docVars, viewVars>>

\* the screen is at getch()
AtTreeGetch == tree.pc = "view"

\* the key is handled without a call of the editor
TreeKey(key, t) ==
    /\ tree' = Shown([t EXCEPT !.key = key])
    /\ UNCHANGED editorVars
    /\ TreeOther

\* lines 141-142
TreeQuit ==
    /\ AtTreeGetch
    /\ tree' = [tree EXCEPT !.pc = "closed", !.key = "ctrl_q"]
    /\ UNCHANGED editorVars
    /\ TreeOther

\* lines 143-149
TreeUp ==
    /\ AtTreeGetch
    /\ TreeKey("up", IF tree.cursor_y > 0 THEN [tree EXCEPT !.cursor_y = @ - 1]
                     ELSE IF tree.offset > 0 THEN [tree EXCEPT !.offset = @ - 1]
                     ELSE [tree EXCEPT !.cursor_x = 0])

\* lines 150-157
TreeDown ==
    /\ AtTreeGetch
    /\ TreeKey("down",
               IF tree.cursor_y < Len(visible(tree)) - 1
               THEN [tree EXCEPT !.cursor_y = @ + 1]
               ELSE IF tree.offset < Len(tree.lines) - (tree.height - 1)
               THEN [tree EXCEPT !.offset = @ + 1]
               ELSE [tree EXCEPT !.cursor_x = Len(visible(tree)[Len(visible(tree))])])

\* lines 158-159
TreeLeft ==
    /\ AtTreeGetch
    /\ TreeKey("left", IF tree.cursor_x > 0 THEN [tree EXCEPT !.cursor_x = @ - 1] ELSE tree)

\* lines 160-161
TreeRight ==
    /\ AtTreeGetch
    /\ TreeKey("right", IF tree.cursor_x < tree.width - 1
                        THEN [tree EXCEPT !.cursor_x = @ + 1] ELSE tree)

\* lines 162-173 with the cursor on a link whose note is in paths: the editor
\* is opened on the note's file
TreeGoto ==
    /\ AtTreeGetch
    /\ TreeLink(tree) # NoLink
    /\ Has(tree.paths, TreeLink(tree).note)
    /\ tree' = [tree EXCEPT !.pc = "editing", !.key = "ctrl_g"]
    /\ stack' = <<OpenFrame(Get(tree.paths, TreeLink(tree).note), fs)>>
    /\ status' = "running"
    /\ UNCHANGED <<fs, edits>>
    /\ TreeOther

\* lines 162-174 with the cursor on no link, or on a link whose note is not in
\* paths: no branch acts
TreeGotoNothing ==
    /\ AtTreeGetch
    /\ TreeLink(tree) = NoLink \/ ~Has(tree.paths, TreeLink(tree).note)
    /\ TreeKey("ctrl_g", tree)

\* any other key
TreeOtherKey ==
    /\ AtTreeGetch
    /\ TreeKey("other", tree)

\* line 173: editing_screen returns (Quit in the editor) and the loop goes on
TreeEditorReturns ==
    /\ tree.pc = "editing"
    /\ tree' = Shown([tree EXCEPT !.pc = "view"])
    /\ stack' = <<>>
    /\ status' = "idle"
    /\ UNCHANGED <<fs, edits>>
    /\ TreeOther

NextTree ==
    \/ TreeQuit
    \/ TreeUp
    \/ TreeDown
    \/ TreeLeft
    \/ TreeRight
    \/ TreeGoto
    \/ TreeGotoNothing
    \/ TreeOtherKey
    \/ TreeEditorReturns

SpecTree == InitTree /\ [][NextTree]_vars

-----------------------------------------------------------------------------
(* Claims about the link tree                                               *)

\* the link under the cursor names a note that paths does not hold
OnDangling(t) == TreeLink(t) # NoLink /\ ~Has(t.paths, TreeLink(t).note)

\* the file the editor creates for the note of the link under the cursor
\* (editor.py line 151)
Created(t) == path_join(vault_root, TreeLink(t).note \o <<MD>>)

\* C20: in the link tree, Go-to-link with the cursor on a displayed link
\* whose note is not in paths creates the note's file, empty, and opens the
\* editor on it, as the editor's own Go-to-link does.
C20_AsStated ==
    [][ (tree.pc = "view" /\ tree'.key = "ctrl_g" /\ OnDangling(tree))
        => /\ fs' = WriteFile(fs, Created(tree), <<>>)
           /\ tree'.pc = "editing"
           /\ stack' = <<OpenFrame(Created(tree), fs')>> ]_vars

\* C29: in the link tree the cursor is on a cell that can be drawn whenever
\* it is placed: its row and its column are not negative, and when there
\* are lines offset + cursor_y is the index of one, for every vault, one
\* without notes included, and every sequence of keys.
C29_AsStated ==
    tree.pc \in {"view", "editing", "closed", "move_raised"} =>
        /\ 0 <= tree.cursor_y
        /\ 0 <= tree.cursor_x
        /\ tree.lines # <<>> => tree.offset + tree.cursor_y < Len(tree.lines)

-----------------------------------------------------------------------------
(* The editor's load and save of a text: editor.py lines 29-37 read the     *)
(* file into the buffer, lines 138-142 write the buffer back.               *)

\* pieces a text is made of
MaxPieces == 4

Pieces == { Link(<<"a">>), <<"[", "[">>, <<"]", "]">>, <<"[">>, <<"]">>, <<"a">>,
            <<NL>>, <<CR>>, <<FF>> }

\* the texts of at most n pieces
RECURSIVE TextsOf(_)
TextsOf(n) ==
    IF n = 0 THEN {<<>>}
    ELSE LET shorter == TextsOf(n - 1)
         IN  shorter \cup {t \o q : t \in shorter, q \in Pieces}

InitText ==
    /\ NoEditor
    /\ vault = <<>>
    /\ gpc = "idle"
    /\ graph = EmptyDict
    /\ paths = EmptyDict
    /\ incoming = EmptyDict
    /\ layout = NoLayout
    /\ keylog = <<>>
    /\ boot = NoBoot
    /\ tree = NoTree
    /\ view = NoView
    /\ \E t \in TextsOf(MaxPieces) :
          doc = [pc |-> "file", text |-> t, f |-> OpenFrame(APath, <<>>), saved |-> <<>>]

TextOther == UNCHANGED <<editorVars, graphVars, layoutVars, keysVars, bootVars, treeVars, viewVars>>

\* lines 26-44: editing_screen opens the file that holds the text
TextLoad ==
    /\ doc.pc = "file"
    /\ doc' = [doc EXCEPT !.pc = "loaded",
                          !.f = OpenFrame(APath, [p \in {APath} |-> doc.text])]
    /\ TextOther

\* lines 137-142: Save writes the buffer
TextSave ==
    /\ doc.pc = "loaded"
    /\ doc' = [doc EXCEPT !.pc = "saved",
                          !.f = [doc.f EXCEPT !.save_status = TRUE, !.last_saved_time = TRUE],
                          !.saved = join(doc.f.buffer)]
    /\ TextOther

NextText ==
    \/ TextLoad
    \/ TextSave

SpecText == InitText /\ [][NextText]_vars

-----------------------------------------------------------------------------
(* Claims about texts, checked under SpecText.                              *)

\* the load leaves the line boundaries of t as they are: each is a "\n"
OnlyNewlines(t) == \A i \in 1..Len(t) : t[i] \notin {CR, FF}

AllLinks(f) == links_on_screen(f, Len(f.buffer) + 1)

\* the links that hold the cell (y, x)
Holding(f, y, x) ==
    {i \in 1..Len(AllLinks(f)) :
        /\ AllLinks(f)[i].y = y
        /\ AllLinks(f)[i].x_start <= x
        /\ x < AllLinks(f)[i].x_end}

-----------------------------------------------------------------------------
(* The graph view: graph_view_screen of graph.py, lines 83-185. The view    *)
(* waits in getch (line 171) after it drew the nodes at the size it read    *)
(* on line 116.                                                             *)

\* the terminal sizes, <<height, width>> of getmaxyx
ViewSizes == {<<6, 8>>, <<4, 6>>, <<5, 3>>}

\* the vaults viewed: A.md links to B.md; three notes in a chain
ViewWalks ==
    { File(vault_root, <<"A", MD>>, Content(Link(<<"B">>)))
        \o File(vault_root, <<"B", MD>>, Content(<<>>)),
      File(vault_root, <<"A", MD>>, Content(Link(<<"B">>)))
        \o File(vault_root, <<"B", MD>>, Content(Link(<<"C">>)))
        \o File(vault_root, <<"C", MD>>, Content(<<>>)) }

\* lines 139-144: the notes whose position is the cursor's cell
UnderCursor(v) ==
    {i \in 1..Len(v.positions) : v.positions[i] = <<v.cursor_x, v.cursor_y>>}

\* lines 141-144: current_note is the last note of positions under the cursor
current_note(v) ==
    v.graph.keys[CHOOSE i \in UnderCursor(v) : \A j \in UnderCursor(v) : j <= i]

\* line 144 writes the highlight without a guard and line 167 moves the
\* cursor: curses raises for a cell outside the window, and addstr for the
\* window's last cell
ViewRenderFails(v) ==
    \/ v.cursor_y >= v.height
    \/ v.cursor_x >= v.width
    \/ /\ UnderCursor(v) # {}
       /\ v.cursor_y = v.height - 1
       /\ v.cursor_x = v.width - 1

\* lines 115-171: one pass of the loop up to getch
ViewShown(v) == IF ViewRenderFails(v) THEN [v EXCEPT !.pc = "raised"] ELSE v

\* lines 92-112, the positions from boot.py lines 92-99 or line 109, and the
\* first pass of the loop
InitView ==
    /\ NoEditor
    /\ vault = <<>>
    /\ gpc = "idle"
    /\ graph = EmptyDict
    /\ paths = EmptyDict
    /\ incoming = EmptyDict
    /\ layout = NoLayout
    /\ keylog = <<>>
    /\ boot = NoBoot
    /\ tree = NoTree
    /\ doc = NoDoc
    /\ \E w \in ViewWalks, sz \in ViewSizes, r \in Seeds :
          LET built == build_note_graph(w)
          IN  view = ViewShown(
                       [pc |-> "view",
                        graph |-> built.graph,
                        paths |-> built.paths,
                        incoming |-> build_incoming_links(built.graph),
                        positions |-> force_layout(built.graph,
                                          SeedPositions(Len(built.graph.keys), sz[2], sz[1], r),
                                          sz[2], sz[1]),
                        height |-> sz[1],
                        width |-> sz[2],
                        cursor_x |-> sz[2] \div 2,
                        cursor_y |-> sz[1] \div 2,
                        file |-> <<>>])

ViewOther == UNCHANGED <<editorVars, graphVars, layoutVars, keysVars, bootVars, treeVars, docVars>>

\* line 171: the view waits for a key
AtViewGetch == view.pc = "view"

\* the key was handled and the loop drew the view again
ViewKey(v) ==
    /\ view' = ViewShown(v)
    /\ ViewOther

\* lines 172-173: CTRL+Q
ViewQuit ==
    /\ AtViewGetch
    /\ view' = [view EXCEPT !.pc = "closed"]
    /\ ViewOther

\* the terminal is resized: getch returns KEY_RESIZE, which no branch
\* handles, and line 116 reads the new size
ViewResize ==
    /\ AtViewGetch
    /\ \E sz \in ViewSizes :
          /\ sz # <<view.height, view.width>>
          /\ ViewKey([view EXCEPT !.height = sz[1], !.width = sz[2]])

\* lines 174-175
ViewUp ==
    /\ AtViewGetch
    /\ ViewKey(IF view.cursor_y > 0 THEN [view EXCEPT !.cursor_y = @ - 1] ELSE view)

\* lines 176-177
ViewDown ==
    /\ AtViewGetch
    /\ ViewKey(IF view.cursor_y < view.height - 2 THEN [view EXCEPT !.cursor_y = @ + 1] ELSE view)

\* lines 178-179
ViewLeft ==
    /\ AtViewGetch
    /\ ViewKey(IF view.cursor_x > 0 THEN [view EXCEPT !.cursor_x = @ - 1] ELSE view)

\* lines 180-181
ViewRight ==
    /\ AtViewGetch
    /\ ViewKey(IF view.cursor_x < view.width - 1 THEN [view EXCEPT !.cursor_x = @ + 1] ELSE view)

\* lines 182-185: CTRL+G on a note opens the editor on the note's file
ViewGoto ==
    /\ AtViewGetch
    /\ UnderCursor(view) # {}
    /\ IF Has(view.paths, current_note(view))
       THEN view' = [view EXCEPT !.pc = "editing", !.file = Get(view.paths, current_note(view))]
       ELSE view' = ViewShown(view)
    /\ ViewOther

\* line 185: the editor returns, the loop goes on
ViewEditorReturns ==
    /\ view.pc = "editing"
    /\ ViewKey([view EXCEPT !.pc = "view", !.file = <<>>])

NextView ==
    \/ ViewQuit
    \/ ViewResize
    \/ ViewUp
    \/ ViewDown
    \/ ViewLeft
    \/ ViewRight
    \/ ViewGoto
    \/ ViewEditorReturns

SpecView == InitView /\ [][NextView]_vars

\* the region force_layout keeps the nodes in, for a terminal of the size
\* the view read last
InRegion(p, width, height) ==
    /\ 1 <= p[1] /\ p[1] <= width - 2
    /\ 1 <= p[2] /\ p[2] <= height - 3

\* C21: whenever the view has drawn the nodes at the size it read, the
\* positions it draws and tests the cursor against are a layout for that
\* size: every node lies within [1, width - 2] x [1, height - 3].
C21_AsStated ==
    view.pc = "view" =>
        \A i \in 1..Len(view.positions) : InRegion(view.positions[i], view.width, view.height)

-----------------------------------------------------------------------------
(* The repulsion of force_layout on nodes that start on one cell, checked   *)
(* under SpecLayout.                                                        *)

\* the graph g has no link at all
NoEdges(g) == \A v \in 1..Len(g.val) : g.val[v] = <<>>

\* the region of lines 76-77 has more than one cell
HasRoom(width, height) == (width - 2) * (height - 3) >= 2

\* C31: in a graph of two or more nodes without links, two nodes that start
\* at the same position are pushed apart by the repulsion, so that after
\* the rounds they are at different positions when the region has room.
C31_AsStated ==
    ( /\ layout.pc = "loop"
      /\ layout.round = 0
      /\ layout.iterations >= 1
      /\ Len(layout.graph.keys) >= 2
      /\ NoEdges(layout.graph)
      /\ HasRoom(layout.width, layout.height) )
    => LET end == Rounds(layout.graph, layout.positions,
                         layout.width, layout.height, layout.iterations)
       IN  \A v \in 1..Len(end), u \in 1..Len(end) :
              (u # v /\ layout.positions[u] = layout.positions[v]) => end[u] # end[v]

====
